---- MODULE Spec2Model ----
(***************************************************************************)
(* Model of the model-manager reconciliation core:                         *)
(*   app/kserve_client.py  KServeClient (manifest builder, resource client)*)
(* The resource store (the Kubernetes custom-objects API) is the           *)
(* environment of the client: it answers get / create / delete by          *)
(* (namespace, name) with 200, 404 (not found), 409 (already exists) or an *)
(* upstream failure, and completes a requested deletion asynchronously.    *)
(***************************************************************************)
EXTENDS Integers, Sequences, FiniteSets, TLC

(***************************************************************************)
(* JSON / Python values.  A value is a tagged record so that values of     *)
(* different types can live in one mapping:                                *)
(*   [t |-> "null"]            None                                        *)
(*   [t |-> "bool", v |-> b]   True / False                                *)
(*   [t |-> "int",  v |-> n]   an int                                      *)
(*   [t |-> "float", tenths |-> n]  the float n/10 (one decimal)           *)
(*   [t |-> "str",  v |-> s]   a string                                    *)
(*   [t |-> "dict", items |-> <<[k |-> key, v |-> value], ...>>]           *)
(*                             a dict, in insertion order                  *)
(*   [t |-> "obj",  v |-> s]   an opaque non-empty structured value        *)
(***************************************************************************)
None == [t |-> "null"]
VBool(b) == [t |-> "bool", v |-> b]
VInt(n) == [t |-> "int", v |-> n]
VFloat(n) == [t |-> "float", tenths |-> n]
VStr(s) == [t |-> "str", v |-> s]
VDict(items) == [t |-> "dict", items |-> items]
VObj(s) == [t |-> "obj", v |-> s]

\* Python truthiness (`if x:` / `not x`)
Truthy(val) ==
  CASE val.t = "null" -> FALSE
    [] val.t = "bool" -> val.v
    [] val.t = "int" -> val.v # 0
    [] val.t = "float" -> val.tenths # 0
    [] val.t = "str" -> val.v # ""
    [] val.t = "dict" -> val.items # <<>>
    [] OTHER -> TRUE

Digit(d) == CASE d = 0 -> "0" [] d = 1 -> "1" [] d = 2 -> "2" [] d = 3 -> "3"
              [] d = 4 -> "4" [] d = 5 -> "5" [] d = 6 -> "6" [] d = 7 -> "7"
              [] d = 8 -> "8" [] d = 9 -> "9"

RECURSIVE StrNat(_)
StrNat(n) == IF n < 10 THEN Digit(n) ELSE StrNat(n \div 10) \o Digit(n % 10)

\* Python str(value) for the scalar values a config holds
Str(val) ==
  CASE val.t = "null" -> "None"
    [] val.t = "bool" -> IF val.v THEN "True" ELSE "False"
    [] val.t = "int" -> IF val.v < 0 THEN "-" \o StrNat(0 - val.v) ELSE StrNat(val.v)
    [] val.t = "float" -> StrNat(val.tenths \div 10) \o "." \o StrNat(val.tenths % 10)
    [] val.t = "str" -> val.v
    [] OTHER -> "<object>"

\* dict.get(key) with default None, on a mapping modelled as a function
DictGet(d, key) == IF key \in DOMAIN d THEN d[key] ELSE None

\* d[key] = value on a mapping modelled as a function
Put(d, key, value) == [x \in DOMAIN d \cup {key} |-> IF x = key THEN value ELSE d[x]]

(***************************************************************************)
(* KServeClient.__init__: the configured resource identity                 *)
(***************************************************************************)
self == [namespace |-> "ai", inferenceservice_name |-> "active-llm",
         group |-> "serving.kserve.io", version |-> "v1beta1",
         plural |-> "inferenceservices"]

(***************************************************************************)
(* Manifest builder                                                        *)
(***************************************************************************)
flag_map == [tensorParallelSize |-> "--tensor-parallel-size",
             dtype |-> "--dtype",
             gpuMemoryUtilization |-> "--gpu-memory-utilization",
             maxModelLen |-> "--max-model-len",
             trustRemoteCode |-> "--trust-remote-code"]

\* variant: no isinstance(value, bool) test, booleans are stringified
ArgTokens_no_bool(key, value) ==
  IF key \notin DOMAIN flag_map \/ value.t = "null" THEN <<>>
  ELSE <<flag_map[key], Str(value)>>

\* the tokens one (key, value) item of the loop body appends
ArgTokens(key, value) ==
  IF key \notin DOMAIN flag_map \/ value.t = "null" THEN <<>>
  ELSE IF value.t = "bool" THEN (IF value.v THEN <<flag_map[key]>> ELSE <<>>)
  ELSE <<flag_map[key], Str(value)>>

RECURSIVE ArgsLoop(_)
ArgsLoop(items) ==
  IF items = <<>> THEN <<>>
  ELSE ArgTokens(Head(items).k, Head(items).v) \o ArgsLoop(Tail(items))

_build_vllm_args(vllm_config) ==
  IF ~Truthy(vllm_config) THEN <<>> ELSE ArgsLoop(vllm_config.items)

\* variant: the hfModelId is preferred to a given storageUri
StorageUri_hf_first(model_config) ==
  LET storage_uri == DictGet(model_config, "storageUri")
  IN  IF Truthy(DictGet(model_config, "hfModelId"))
      THEN VStr("hf://" \o Str(model_config["hfModelId"]))
      ELSE storage_uri

StorageUri(model_config) ==
  LET storage_uri == DictGet(model_config, "storageUri")
  IN  IF ~Truthy(storage_uri) /\ Truthy(DictGet(model_config, "hfModelId"))
      THEN VStr("hf://" \o Str(model_config["hfModelId"]))
      ELSE storage_uri

\* variant: the args key is set whatever the sequence is
WithArgs_always(model_spec, vllm_args) == Put(model_spec, "args", vllm_args)

\* if vllm_args: model_spec["args"] = vllm_args
WithArgs(model_spec, vllm_args) ==
  IF vllm_args # <<>> THEN Put(model_spec, "args", vllm_args) ELSE model_spec

CopyIfPresent(target, model_config, key) ==
  IF key \in DOMAIN model_config THEN Put(target, key, model_config[key]) ELSE target

ModelSpec(model_config) ==
  LET base == [modelFormat |-> [name |-> "custom"],
               runtime |-> IF "runtime" \in DOMAIN model_config
                           THEN model_config["runtime"] ELSE VStr("vllm-runtime")]
      storage_uri == StorageUri(model_config)
      s1 == IF Truthy(storage_uri) THEN Put(base, "storageUri", storage_uri) ELSE base
      s2 == CopyIfPresent(s1, model_config, "env")
      s3 == CopyIfPresent(s2, model_config, "storage")
      vllm_args == _build_vllm_args(DictGet(model_config, "vllm"))
      s4 == WithArgs(s3, vllm_args)
      s5 == CopyIfPresent(s4, model_config, "resources")
  IN  CopyIfPresent(s5, model_config, "volumeMounts")

Predictor(model_config) ==
  LET p0 == [minReplicas |-> 1, model |-> ModelSpec(model_config)]
      p1 == CopyIfPresent(p0, model_config, "nodeSelector")
      p2 == CopyIfPresent(p1, model_config, "tolerations")
      p3 == CopyIfPresent(p2, model_config, "resources")
  IN  CopyIfPresent(p3, model_config, "volumes")

\* variant: the model-id annotation carries the hfModelId
Metadata_annotated_hf(model_config) ==
  [name |-> self.inferenceservice_name,
   namespace |-> self.namespace,
   annotations |-> [secretName |-> "hf-token",
                    modelId |-> DictGet(model_config, "hfModelId")]]

\* annotations: serving.kserve.io/secretName and model-manager/model-id
Metadata(model_config) ==
  [name |-> self.inferenceservice_name,
   namespace |-> self.namespace,
   annotations |-> [secretName |-> "hf-token", modelId |-> model_config["id"]]]

\* variant: the resource is named after the model, not after the configured name
_build_inferenceservice_named_by_id(model_config) ==
  [apiVersion |-> self.group \o "/" \o self.version,
   kind |-> "InferenceService",
   metadata |-> [Metadata(model_config) EXCEPT !.name = Str(model_config["id"])],
   spec |-> [predictor |-> Predictor(model_config)]]

_build_inferenceservice(model_config) ==
  [apiVersion |-> self.group \o "/" \o self.version,
   kind |-> "InferenceService",
   metadata |-> Metadata(model_config),
   spec |-> [predictor |-> Predictor(model_config)]]

(***************************************************************************)
(* Inputs of the resource client: the model definitions it is asked to     *)
(* activate.                                                               *)
(***************************************************************************)
Def1 == [id |-> VStr("m1"), hfModelId |-> VStr("org/m1")]
Def2 == [id |-> VStr("m2"), storageUri |-> VStr("s3://models/m2"),
         vllm |-> VDict(<<[k |-> "trustRemoteCode", v |-> VBool(TRUE)],
                          [k |-> "dtype", v |-> VStr("float16")]>>)]
Defs == {Def1, Def2}

Callers == {"c1", "c2"}

\* _wait_for_deletion(timeout=300, interval=2): the defaults activate_model uses
Timeout == 300
Interval == 2

\* a store round trip takes 0..MaxLatency time-units on top of the sleep
MaxLatency == 1

\* upstream failures of the store other than not-found and conflict
ErrStatuses == {500}

NoConfig == [id |-> None]
NoManifest == [kind |-> "None"]
NoResult == [kind |-> "none"]

VARIABLES
  store,       \* the custom objects of the cluster: a set of
               \* [namespace, name, body, terminating]
  frame,       \* per caller: the running (or last finished) client call
  active,      \* the callers that issue calls
  latency,     \* the store round-trip times that can occur
  invoked,     \* history: the definitions activate_model was called with
  bothReadAbsent,  \* history: both callers' activate calls read not-found
                   \* before either issued its create
  overlap,     \* history: the callers' current (or last) calls overlapped
               \* in time
  build_in,    \* manifest builder on its own: the model definition given
  build_out,   \* manifest builder on its own: what it returned
  dir_exists,  \* the catalog: models_path.exists()
  files,       \* the catalog: the content of each *.json file of the directory
  glob_order,  \* the catalog: the order in which glob lists the directory
  models,      \* the catalog: ModelCatalog.models, id -> definition
  started,     \* the startup event of the application has run
  fresh,       \* history: the catalog loads since the files last changed
  got          \* the last answer of the GET /models/{model_id} handler

clientVars == <<store, frame, active, latency, invoked, bothReadAbsent, overlap>>
buildVars == <<build_in, build_out>>
catalogVars == <<dir_exists, files, glob_order, models, started, fresh, got>>
vars == <<store, frame, active, latency, invoked, bothReadAbsent, overlap,
          build_in, build_out, dir_exists, files, glob_order, models, started,
          fresh, got>>

IdleFrame ==
  [pc |-> "idle", op |-> "none", model_config |-> NoConfig,
   inference_service |-> NoManifest, result |-> NoResult,
   nGet |-> 0, nDelete |-> 0, nPoll |-> 0, nCreate |-> 0,
   firstRead |-> 0, lastCall |-> "none", lastStatus |-> 0,
   polled |-> FALSE, sawGone |-> FALSE, elapsed |-> 0,
   follows |-> NoManifest, deleteStatus |-> 0]

(***************************************************************************)
(* The resource store (custom_api), keyed by (namespace, name)             *)
(***************************************************************************)
Lookup(namespace, name) ==
  {o \in store : o.namespace = namespace /\ o.name = name}

\* get_namespaced_custom_object(namespace, name)
GetStatus(fault, namespace, name) ==
  IF fault # 0 THEN fault
  ELSE IF Lookup(namespace, name) = {} THEN 404 ELSE 200

\* delete_namespaced_custom_object(namespace, name)
DeleteStatus(fault, namespace, name) ==
  IF fault # 0 THEN fault
  ELSE IF Lookup(namespace, name) = {} THEN 404 ELSE 200

\* the store after an accepted delete: the object is gone at once, or it is
\* marked for deletion and stays readable until the cluster has finished
DeleteEffects(namespace, name) ==
  LET rest == store \ Lookup(namespace, name)
  IN  {rest, rest \cup {[o EXCEPT !.terminating = TRUE] : o \in Lookup(namespace, name)}}

\* create_namespaced_custom_object(namespace, body): the name is the body's
CreateStatus(fault, namespace, body) ==
  IF fault # 0 THEN fault
  ELSE IF Lookup(namespace, body.metadata.name) # {} THEN 409 ELSE 201

CreateEffect(namespace, body) ==
  store \cup {[namespace |-> namespace, name |-> body.metadata.name,
               body |-> body, terminating |-> FALSE]}

Faults == {0} \cup ErrStatuses

ApiException(status) == [kind |-> "raise", exc |-> "ApiException", status |-> status]
TimeoutError == [kind |-> "raise", exc |-> "TimeoutError"]
Return(action) == [kind |-> "return", action |-> action, name |-> self.inferenceservice_name]

Raise(f, exception) == [f EXCEPT !.pc = "done", !.result = exception]

Others(p) == Callers \ {p}

\* the call of the frame has started and has not ended
Running(f) == f.pc \notin {"idle", "done"}

\* the call that p starts overlaps the call of another caller that is running
Overlaps(p) == \E q \in Callers \ {p} : Running(frame[q])

\* a caller starts a call when its previous one is over; callers outside
\* `active` never call, so with one active caller calls never overlap
CanCall(p) == p \in active /\ frame[p].pc \in {"idle", "done"}

(***************************************************************************)
(* KServeClient.activate_model                                             *)
(***************************************************************************)
\* entry: build the manifest (line 38)
activate_model(p, D) ==
  /\ CanCall(p)
  /\ frame' = [frame EXCEPT ![p] =
       [IdleFrame EXCEPT !.pc = "get", !.op = "activate", !.model_config = D,
                         !.inference_service = _build_inferenceservice(D)]]
  /\ invoked' = invoked \cup {D}
  /\ bothReadAbsent' = FALSE
  /\ overlap' = Overlaps(p)
  /\ UNCHANGED <<store, active, latency>>
  /\ UNCHANGED buildVars
  /\ UNCHANGED catalogVars

\* variant: `except ApiException: pass`, every failed read leads to the create
after_get_swallow(f, status) ==
  IF status = 200 THEN [f EXCEPT !.pc = "delete"] ELSE [f EXCEPT !.pc = "create"]

\* variant: a 404 of the initial read is not told apart from a found resource
after_get_delete_always(f, status) ==
  IF status \in {200, 404} THEN [f EXCEPT !.pc = "delete"]
  ELSE Raise(f, ApiException(status))

\* what the try block does with the outcome of the initial read: go on to the
\* delete, fall through to the create on 404, re-raise otherwise
after_get(f, status) ==
  IF status = 200 THEN [f EXCEPT !.pc = "delete"]
  ELSE IF status = 404 THEN [f EXCEPT !.pc = "create"]
  ELSE Raise(f, ApiException(status))

\* the initial read (lines 40-47, 51-53)
activate_get(p) ==
  /\ frame[p].pc = "get"
  /\ \E fault \in Faults :
       LET status == GetStatus(fault, self.namespace, self.inferenceservice_name)
           f == [frame[p] EXCEPT !.nGet = @ + 1, !.firstRead = status,
                                 !.lastCall = "get", !.lastStatus = status]
       IN  /\ frame' = [frame EXCEPT ![p] = after_get(f, status)]
           /\ bothReadAbsent' =
                (status = 404 /\ \A q \in Others(p) :
                                   /\ frame[q].op = "activate"
                                   /\ frame[q].pc = "create"
                                   /\ frame[q].firstRead = 404)
  /\ UNCHANGED <<store, active, latency, invoked, overlap>>
  /\ UNCHANGED buildVars
  /\ UNCHANGED catalogVars

\* variant: the outcome of the create is not looked at
after_create_unchecked(f, status) ==
  [f EXCEPT !.pc = "done", !.result = Return("created")]

\* variant: a conflict of the create is answered by an update in place
after_create_update_on_conflict(f, status) ==
  IF status = 201 THEN [f EXCEPT !.pc = "done", !.result = Return("created")]
  ELSE IF status = 409 THEN [f EXCEPT !.pc = "done", !.result = Return("updated")]
  ELSE Raise(f, ApiException(status))

\* the outcome of the create call: it is outside the try block, any
\* ApiException leaves activate_model
after_create(f, status) ==
  IF status = 201 THEN [f EXCEPT !.pc = "done", !.result = Return("created")]
  ELSE Raise(f, ApiException(status))

\* variant: a create that meets an existing resource replaces its manifest
\* with an update call and reports `updated`
activate_create_or_replace(p) ==
  /\ frame[p].pc = "create"
  /\ \E fault \in Faults :
       LET body == frame[p].inference_service
           status == CreateStatus(fault, self.namespace, body)
           f == [frame[p] EXCEPT !.nCreate = @ + 1,
                                 !.lastCall = IF status = 409 THEN "update" ELSE "create",
                                 !.lastStatus = status]
       IN  /\ store' = IF status = 201 THEN CreateEffect(self.namespace, body)
                       ELSE IF status = 409
                       THEN {[o EXCEPT !.body = body] : o \in store}
                       ELSE store
           /\ frame' = [frame EXCEPT ![p] =
                IF status = 409
                THEN [f EXCEPT !.pc = "done", !.result = Return("updated")]
                ELSE after_create(f, status)]
  /\ UNCHANGED <<active, latency, invoked, bothReadAbsent, overlap>>
  /\ UNCHANGED buildVars
  /\ UNCHANGED catalogVars

\* the create (lines 55-63)
activate_create(p) ==
  /\ frame[p].pc = "create"
  /\ \E fault \in Faults :
       LET body == frame[p].inference_service
           status == CreateStatus(fault, self.namespace, body)
           f == [frame[p] EXCEPT !.nCreate = @ + 1, !.lastCall = "create",
                                 !.lastStatus = status]
       IN  /\ store' = IF status = 201 THEN CreateEffect(self.namespace, body)
                       ELSE store
           /\ frame' = [frame EXCEPT ![p] = after_create(f, status)]
  /\ UNCHANGED <<active, latency, invoked, bothReadAbsent, overlap>>
  /\ UNCHANGED buildVars
  /\ UNCHANGED catalogVars

(***************************************************************************)
(* KServeClient.deactivate_model                                           *)
(***************************************************************************)
deactivate_model(p) ==
  /\ CanCall(p)
  /\ frame' = [frame EXCEPT ![p] =
       [IdleFrame EXCEPT !.pc = "delete", !.op = "deactivate"]]
  /\ bothReadAbsent' = FALSE
  /\ overlap' = Overlaps(p)
  /\ UNCHANGED <<store, active, latency, invoked>>
  /\ UNCHANGED buildVars
  /\ UNCHANGED catalogVars

\* variant: a 404 of the delete is re-raised like any other ApiException
after_delete_raise404(f, status) ==
  IF status # 200 THEN Raise(f, ApiException(status))
  ELSE IF f.op = "activate" THEN [f EXCEPT !.pc = "wait", !.elapsed = 0]
  ELSE [f EXCEPT !.pc = "done", !.result = Return("deleted")]

\* variant: activate_model goes from the delete straight to the create
after_delete_nowait(f, status) ==
  IF status \notin {200, 404} THEN Raise(f, ApiException(status))
  ELSE IF f.op = "activate" THEN [f EXCEPT !.pc = "create"]
  ELSE [f EXCEPT !.pc = "done",
                 !.result = Return(IF status = 200 THEN "deleted"
                                   ELSE "already_deleted")]

\* variant: activate_model skips the wait when its delete found nothing
after_delete_skip_wait(f, status) ==
  IF status \notin {200, 404} THEN Raise(f, ApiException(status))
  ELSE IF f.op = "activate"
  THEN (IF status = 404 THEN [f EXCEPT !.pc = "create"]
        ELSE [f EXCEPT !.pc = "wait", !.elapsed = 0])
  ELSE [f EXCEPT !.pc = "done",
                 !.result = Return(IF status = 200 THEN "deleted"
                                   ELSE "already_deleted")]

\* the outcome of the delete call: `deleted`, `already_deleted` on 404, any
\* other ApiException re-raised; activate_model (lines 49-50) discards the
\* returned action and enters the wait
after_delete(f, status) ==
  IF status \notin {200, 404} THEN Raise(f, ApiException(status))
  ELSE IF f.op = "activate" THEN [f EXCEPT !.pc = "wait", !.elapsed = 0]
  ELSE [f EXCEPT !.pc = "done",
                 !.result = Return(IF status = 200 THEN "deleted"
                                   ELSE "already_deleted")]

\* the delete (lines 69-84), as an operation of its own or called from
\* activate_model (line 49)
deactivate_delete(p) ==
  /\ frame[p].pc = "delete"
  /\ \E fault \in Faults :
       LET status == DeleteStatus(fault, self.namespace, self.inferenceservice_name)
           f == [frame[p] EXCEPT !.nDelete = @ + 1, !.lastCall = "delete",
                                 !.lastStatus = status, !.deleteStatus = status]
       IN  /\ IF status = 200
              THEN store' \in DeleteEffects(self.namespace, self.inferenceservice_name)
              ELSE store' = store
           /\ frame' = [frame EXCEPT ![p] = after_delete(f, status)]
  /\ UNCHANGED <<active, latency, invoked, bothReadAbsent, overlap>>
  /\ UNCHANGED buildVars
  /\ UNCHANGED catalogVars

(***************************************************************************)
(* KServeClient._wait_for_deletion: `elapsed` is time.time() minus the     *)
(* time at which the deadline was computed                                 *)
(***************************************************************************)
\* the wait's locals (the deadline, and the count of its polls) end with it
LeaveWait(f) == [f EXCEPT !.elapsed = 0, !.nPoll = 0]

\* variant: `<=` in the loop condition
BeforeDeadline_inclusive(f) == f.elapsed <= Timeout

\* the loop condition of line 202
BeforeDeadline(f) == f.elapsed < Timeout

\* the outcome of one poll: sleep when the resource is still there, return on
\* 404, re-raise otherwise; the round trip took `lat`
after_poll(f, status, lat) ==
  IF status = 200 THEN [f EXCEPT !.elapsed = @ + Interval + lat]
  ELSE IF status = 404 THEN [LeaveWait(f) EXCEPT !.pc = "create", !.sawGone = TRUE]
  ELSE Raise(LeaveWait(f), ApiException(status))

\* one iteration of the loop: the deadline has not been reached, read
_wait_for_deletion(p) ==
  /\ frame[p].pc = "wait"
  /\ BeforeDeadline(frame[p])
  /\ \E fault \in Faults, lat \in latency :
       LET status == GetStatus(fault, self.namespace, self.inferenceservice_name)
           f == [frame[p] EXCEPT !.nPoll = @ + 1, !.polled = TRUE,
                                 !.lastCall = "poll", !.lastStatus = status]
       IN  frame' = [frame EXCEPT ![p] = after_poll(f, status, lat)]
  /\ UNCHANGED <<store, active, latency, invoked, bothReadAbsent, overlap>>
  /\ UNCHANGED buildVars
  /\ UNCHANGED catalogVars

\* variant: the wait returns silently when the deadline is reached
after_deadline_returns(f) == [LeaveWait(f) EXCEPT !.pc = "create"]

\* leaving the loop by its condition: line 216
after_deadline(f) == Raise(LeaveWait(f), TimeoutError)

\* the loop condition fails
wait_timeout(p) ==
  /\ frame[p].pc = "wait"
  /\ ~BeforeDeadline(frame[p])
  /\ frame' = [frame EXCEPT ![p] = after_deadline(frame[p])]
  /\ UNCHANGED <<store, active, latency, invoked, bothReadAbsent, overlap>>
  /\ UNCHANGED buildVars
  /\ UNCHANGED catalogVars

(***************************************************************************)
(* KServeClient.get_active_inferenceservice                                *)
(***************************************************************************)
\* history: the manifest that the caller's previous call created, if that
\* call was an activate_model that returned
Created(f) ==
  IF f.op = "activate" /\ f.pc = "done" /\ f.result = Return("created")
  THEN f.inference_service ELSE NoManifest

get_active_inferenceservice(p) ==
  /\ CanCall(p)
  /\ frame' = [frame EXCEPT ![p] =
       [IdleFrame EXCEPT !.pc = "read", !.op = "get_active",
                         !.follows = Created(frame[p])]]
  /\ bothReadAbsent' = FALSE
  /\ overlap' = Overlaps(p)
  /\ UNCHANGED <<store, active, latency, invoked>>
  /\ UNCHANGED buildVars
  /\ UNCHANGED catalogVars

\* variant: a 404 of the read is re-raised like any other ApiException
after_read_raise404(f, status, found) ==
  IF status = 200
  THEN [f EXCEPT !.pc = "done",
                 !.result = [kind |-> "return",
                             value |-> (CHOOSE o \in found : TRUE).body]]
  ELSE Raise(f, ApiException(status))

\* the outcome of the read: the object, None on 404, re-raise otherwise
after_read(f, status, found) ==
  IF status = 200
  THEN [f EXCEPT !.pc = "done",
                 !.result = [kind |-> "return",
                             value |-> (CHOOSE o \in found : TRUE).body]]
  ELSE IF status = 404
  THEN [f EXCEPT !.pc = "done",
                 !.result = [kind |-> "return", value |-> NoManifest]]
  ELSE Raise(f, ApiException(status))

get_active_get(p) ==
  /\ frame[p].pc = "read"
  /\ \E fault \in Faults :
       LET status == GetStatus(fault, self.namespace, self.inferenceservice_name)
           f == [frame[p] EXCEPT !.nGet = @ + 1, !.firstRead = status,
                                 !.lastCall = "get", !.lastStatus = status]
           found == Lookup(self.namespace, self.inferenceservice_name)
       IN  frame' = [frame EXCEPT ![p] = after_read(f, status, found)]
  /\ UNCHANGED <<store, active, latency, invoked, bothReadAbsent, overlap>>
  /\ UNCHANGED buildVars
  /\ UNCHANGED catalogVars

(***************************************************************************)
(* The cluster: a requested deletion completes                             *)
(***************************************************************************)
FinishDeletion ==
  /\ \E o \in store : o.terminating /\ store' = store \ {o}
  /\ UNCHANGED <<frame, active, latency, invoked, bothReadAbsent, overlap>>
  /\ UNCHANGED buildVars
  /\ UNCHANGED catalogVars

(***************************************************************************)
(* ModelCatalog: the directory of definition files                         *)
(***************************************************************************)
FileNames == {"a.json", "b.json"}

\* what a *.json path of the directory can hold
NoFile == [kind |-> "absent"]
Malformed == [kind |-> "malformed"]   \* json.load raises
NotADict == [kind |-> "list"]         \* valid JSON that has no .get
Dict(doc) == [kind |-> "dict", doc |-> doc]

Def1b == [id |-> VStr("m1"), hfModelId |-> VStr("org/m1-v2")]
NoIdDef == [hfModelId |-> VStr("org/m3")]
EmptyIdDef == [id |-> VStr(""), hfModelId |-> VStr("org/m3")]

Contents == {Malformed, NotADict, Dict(NoIdDef), Dict(EmptyIdDef),
             Dict(Def1), Dict(Def1b), Dict(Def2)}

\* the ids that requests ask for
RequestIds == {"m1", "m2", "m3"}

\* ModelCatalog.__init__: self.models = {}
EmptyMap == [x \in {} |-> None]

\* the files that a scan of the directory finds
Present(contents) == {name \in FileNames : contents[name] # NoFile}

\* the orders in which a directory of these files can be listed
Listings(contents) ==
  {sq \in UNION {[1 .. n -> Present(contents)] : n \in {Cardinality(Present(contents))}} :
     \A i, j \in 1 .. Len(sq) : i # j => sq[i] # sq[j]}

\* the body of the loop of load_catalog (lines 32-45): any exception skips
\* the file, and so does a falsy id
LoadFile(mapping, content) ==
  IF content.kind # "dict" THEN mapping
  ELSE LET model_id == DictGet(content.doc, "id")
       IN  IF ~Truthy(model_id) THEN mapping
           ELSE Put(mapping, model_id.v, content.doc)

\* variant: the exception of a file leaves the loop
RECURSIVE LoadLoop_abort(_, _)
LoadLoop_abort(mapping, listing) ==
  IF listing = <<>> \/ files[Head(listing)].kind # "dict" THEN mapping
  ELSE LoadLoop_abort(LoadFile(mapping, files[Head(listing)]), Tail(listing))

\* for json_file in models_path.glob("*.json")
RECURSIVE LoadLoop(_, _)
LoadLoop(mapping, listing) ==
  IF listing = <<>> THEN mapping
  ELSE LoadLoop(LoadFile(mapping, files[Head(listing)]), Tail(listing))

\* ModelCatalog.load_catalog: the mapping it leaves
load_catalog(mapping) ==
  IF ~dir_exists THEN mapping ELSE LoadLoop(mapping, glob_order)

\* variant: clear and load are the two branches of a test
reload_catalog_toggle(mapping) ==
  IF mapping = EmptyMap THEN load_catalog(EmptyMap) ELSE EmptyMap

\* ModelCatalog.reload_catalog: self.models.clear(); self.load_catalog()
reload_catalog(mapping) == load_catalog(EmptyMap)

\* ModelCatalog.get_model: self.models.get(model_id)
get_model(mapping, model_id) ==
  IF model_id \in DOMAIN mapping THEN mapping[model_id] ELSE None

HTTPException(status, model_id) ==
  [kind |-> "raise", exc |-> "HTTPException", status |-> status, model_id |-> model_id]

\* one more load since the files last changed (counted up to two)
Loaded == IF fresh < 2 THEN fresh + 1 ELSE 2

\* the files change under the application (git-sync): a file is written
write_file(name, content) ==
  /\ dir_exists
  /\ files[name] # content
  /\ files' = [files EXCEPT ![name] = content]
  /\ glob_order' \in Listings(files')
  /\ fresh' = 0
  /\ UNCHANGED <<dir_exists, models, started, got>>
  /\ UNCHANGED clientVars
  /\ UNCHANGED buildVars

remove_file(name) ==
  /\ files[name] # NoFile
  /\ files' = [files EXCEPT ![name] = NoFile]
  /\ glob_order' \in Listings(files')
  /\ fresh' = 0
  /\ UNCHANGED <<dir_exists, models, started, got>>
  /\ UNCHANGED clientVars
  /\ UNCHANGED buildVars

\* the models directory is removed with its files, or made
toggle_dir ==
  /\ dir_exists' = ~dir_exists
  /\ files' = [name \in FileNames |-> NoFile]
  /\ glob_order' = <<>>
  /\ fresh' = 0
  /\ UNCHANGED <<models, started, got>>
  /\ UNCHANGED clientVars
  /\ UNCHANGED buildVars

\* main.startup_event: catalog.load_catalog()
startup_event ==
  /\ ~started
  /\ started' = TRUE
  /\ models' = load_catalog(models)
  /\ fresh' = Loaded
  /\ UNCHANGED <<dir_exists, files, glob_order, got>>
  /\ UNCHANGED clientVars
  /\ UNCHANGED buildVars

\* main.list_models: catalog.reload_catalog(), then the summaries
list_models ==
  /\ started
  /\ models' = reload_catalog(models)
  /\ fresh' = Loaded
  /\ UNCHANGED <<dir_exists, files, glob_order, started, got>>
  /\ UNCHANGED clientVars
  /\ UNCHANGED buildVars

\* main.get_model: reload, look the id up, 404 when there is no model
main_get_model(model_id) ==
  /\ started
  /\ models' = reload_catalog(models)
  /\ fresh' = Loaded
  /\ LET model == get_model(models', model_id)
     IN  got' = IF model = None
                THEN HTTPException(404, model_id)
                ELSE [kind |-> "return", model_id |-> model_id, model |-> model]
  /\ UNCHANGED <<dir_exists, files, glob_order, started>>
  /\ UNCHANGED clientVars
  /\ UNCHANGED buildVars

(***************************************************************************)
(* main.activate_model: the handler of POST /models/activate. The handler  *)
(* has no await: the reload, the lookup and the entry into the client are  *)
(* one step. The client call then runs as above, and the handler wraps its *)
(* result or its exception into the response without touching any state.  *)
(***************************************************************************)
\* the frame of a request that ended before any client call
NotFound(model_id) ==
  [IdleFrame EXCEPT !.pc = "done", !.op = "not_found",
                    !.result = HTTPException(404, model_id)]

\* variant: the lookup uses the catalog as it was loaded last
main_activate_model_stale(p, model_id) ==
  /\ started
  /\ CanCall(p)
  /\ LET model == get_model(models, model_id)
     IN  IF model = None
         THEN /\ frame' = [frame EXCEPT ![p] = NotFound(model_id)]
              /\ UNCHANGED invoked
         ELSE /\ frame' = [frame EXCEPT ![p] =
                   [IdleFrame EXCEPT !.pc = "get", !.op = "activate",
                                     !.model_config = model,
                                     !.inference_service = _build_inferenceservice(model)]]
              /\ invoked' = invoked \cup {model}
  /\ bothReadAbsent' = FALSE
  /\ overlap' = Overlaps(p)
  /\ UNCHANGED <<store, active, latency>>
  /\ UNCHANGED buildVars
  /\ UNCHANGED catalogVars

main_activate_model(p, model_id) ==
  /\ started
  /\ CanCall(p)
  /\ models' = reload_catalog(models)
  /\ fresh' = Loaded
  /\ LET model == get_model(models', model_id)
     IN  IF model = None
         THEN /\ frame' = [frame EXCEPT ![p] = NotFound(model_id)]
              /\ UNCHANGED invoked
         ELSE /\ frame' = [frame EXCEPT ![p] =
                   [IdleFrame EXCEPT !.pc = "get", !.op = "activate",
                                     !.model_config = model,
                                     !.inference_service = _build_inferenceservice(model)]]
              /\ invoked' = invoked \cup {model}
  /\ bothReadAbsent' = FALSE
  /\ overlap' = Overlaps(p)
  /\ UNCHANGED <<store, active, latency>>
  /\ UNCHANGED <<dir_exists, files, glob_order, started, got>>
  /\ UNCHANGED buildVars

(***************************************************************************)
(* Specifications                                                          *)
(***************************************************************************)
NotBuilt == [args |-> <<>>, manifest |-> NoManifest]

\* the client and the builder on their own: no catalog directory
NoCatalog ==
  /\ dir_exists = FALSE
  /\ files = <<>>
  /\ glob_order = <<>>
  /\ models = EmptyMap
  /\ started = FALSE
  /\ fresh = 0
  /\ got = NoResult

InitCommon ==
  /\ store = {}
  /\ frame = [p \in Callers |-> IdleFrame]
  /\ invoked = {}
  /\ bothReadAbsent = FALSE
  /\ overlap = FALSE
  /\ build_in = NoConfig
  /\ build_out = NotBuilt
  /\ NoCatalog

\* one caller: calls never overlap
Init ==
  /\ InitCommon
  /\ active = {"c1"}
  /\ latency = 0 .. MaxLatency

\* two callers whose calls interleave freely; each caller has its own
\* deadline, so the round-trip times are not varied here
InitConc ==
  /\ InitCommon
  /\ active = Callers
  /\ latency = {0}

Next ==
  \/ \E p \in Callers, D \in Defs : activate_model(p, D)
  \/ \E p \in Callers : activate_get(p)
  \/ \E p \in Callers : activate_create(p)
  \/ \E p \in Callers : deactivate_model(p)
  \/ \E p \in Callers : deactivate_delete(p)
  \/ \E p \in Callers : _wait_for_deletion(p)
  \/ \E p \in Callers : wait_timeout(p)
  \/ \E p \in Callers : get_active_inferenceservice(p)
  \/ \E p \in Callers : get_active_get(p)
  \/ FinishDeletion

Spec == Init /\ [][Next]_vars

SpecConc == InitConc /\ [][Next]_vars

\* the wait is a synchronous loop of the calling thread: it keeps running
WaitFairness ==
  \A p \in Callers : WF_vars(_wait_for_deletion(p) \/ wait_timeout(p))

SpecFair == Init /\ [][Next]_vars /\ WaitFairness

\* the client is synchronous code: a call that has started takes its next
\* step; nothing obliges a caller to start a call or the cluster to finish a
\* deletion
CallFairness ==
  \A p \in Callers :
    WF_vars(\/ activate_get(p) \/ activate_create(p) \/ deactivate_delete(p)
            \/ _wait_for_deletion(p) \/ wait_timeout(p) \/ get_active_get(p))

SpecLive == Init /\ [][Next]_vars /\ CallFairness

(***************************************************************************)
(* The manifest builder on its own: every vllm config of at most           *)
(* MaxCfgLen fields                                                        *)
(***************************************************************************)
MaxCfgLen == 2

VllmKeys == {"tensorParallelSize", "dtype", "gpuMemoryUtilization",
             "maxModelLen", "trustRemoteCode", "enforceEager"}
VllmValues == {VBool(TRUE), VBool(FALSE), None, VInt(0), VInt(2),
               VFloat(9), VStr("float16")}
VllmItems == {[k |-> key, v |-> value] : key \in VllmKeys, value \in VllmValues}

\* the dicts of n items: the keys of a dict are distinct
RECURSIVE ItemSeqs(_)
ItemSeqs(n) ==
  IF n = 0 THEN {<<>>}
  ELSE {Append(items, i) : items \in {sq \in ItemSeqs(n - 1) : Len(sq) = n - 1},
                           i \in VllmItems}
       \cup ItemSeqs(n - 1)

DistinctKeys(items) ==
  \A i, j \in 1 .. Len(items) : i # j => items[i].k # items[j].k

VllmConfigs == {VDict(items) : items \in {sq \in ItemSeqs(MaxCfgLen) : DistinctKeys(sq)}}

\* a key of a definition file can be missing, null, empty or set
Missing == [t |-> "missing"]
WithKey(d, key, value) == IF value = Missing THEN d ELSE Put(d, key, value)

StorageDefs ==
  {WithKey(WithKey([id |-> VStr("m1")], "storageUri", s), "hfModelId", h) :
     s \in {Missing, None, VStr(""), VStr("s3://models/m1")},
     h \in {Missing, None, VStr(""), VStr("org/m1")}}

BuildDefs ==
  {[id |-> VStr("m1"), hfModelId |-> VStr("org/m1"), vllm |-> c] :
     c \in VllmConfigs \cup {None}}
  \cup StorageDefs
  \cup {Def1, Def2}

InitBuild ==
  /\ store = {}
  /\ frame = [p \in Callers |-> IdleFrame]
  /\ active = {}
  /\ latency = {0}
  /\ invoked = {}
  /\ bothReadAbsent = FALSE
  /\ overlap = FALSE
  /\ build_in \in BuildDefs
  /\ build_out = NotBuilt
  /\ NoCatalog

\* activate_model line 38 alone: build the manifest of the definition
Build ==
  /\ build_out = NotBuilt
  /\ build_out' = [args |-> _build_vllm_args(DictGet(build_in, "vllm")),
                   manifest |-> _build_inferenceservice(build_in)]
  /\ UNCHANGED build_in
  /\ UNCHANGED clientVars
  /\ UNCHANGED catalogVars

NextBuild == Build

SpecBuild == InitBuild /\ [][NextBuild]_vars

(***************************************************************************)
(* The catalog on its own: the files change under the application, which   *)
(* loads them at startup and reloads them in its handlers                  *)
(***************************************************************************)
\* ModelCatalog.__init__ over a directory that has no file yet
InitFiles ==
  /\ files = [name \in FileNames |-> NoFile]
  /\ glob_order = <<>>
  /\ models = EmptyMap
  /\ started = FALSE
  /\ fresh = 0
  /\ got = NoResult

InitCatalog ==
  /\ store = {}
  /\ frame = [p \in Callers |-> IdleFrame]
  /\ active = {}
  /\ latency = {0}
  /\ invoked = {}
  /\ bothReadAbsent = FALSE
  /\ overlap = FALSE
  /\ build_in = NoConfig
  /\ build_out = NotBuilt
  /\ dir_exists \in BOOLEAN
  /\ InitFiles

NextCatalog ==
  \/ \E name \in FileNames, content \in Contents : write_file(name, content)
  \/ \E name \in FileNames : remove_file(name)
  \/ toggle_dir
  \/ startup_event
  \/ list_models
  \/ \E model_id \in RequestIds : main_get_model(model_id)

SpecCatalog == InitCatalog /\ [][NextCatalog]_vars

(***************************************************************************)
(* The application: one worker serving the requests, over a catalog        *)
(* directory of one file                                                   *)
(***************************************************************************)
InitFacade ==
  /\ store = {}
  /\ frame = [p \in Callers |-> IdleFrame]
  /\ active = {"c1"}
  /\ latency = {0}
  /\ invoked = {}
  /\ bothReadAbsent = FALSE
  /\ overlap = FALSE
  /\ build_in = NoConfig
  /\ build_out = NotBuilt
  /\ dir_exists = TRUE
  /\ InitFiles

NextFacade ==
  \/ \E content \in {Dict(Def1), Dict(Def2)} : write_file("a.json", content)
  \/ remove_file("a.json")
  \/ startup_event
  \/ \E model_id \in RequestIds : main_activate_model("c1", model_id)
  \/ activate_get("c1")
  \/ activate_create("c1")
  \/ deactivate_model("c1")
  \/ deactivate_delete("c1")
  \/ _wait_for_deletion("c1")
  \/ wait_timeout("c1")
  \/ get_active_inferenceservice("c1")
  \/ get_active_get("c1")
  \/ FinishDeletion

SpecFacade == InitFacade /\ [][NextFacade]_vars

TypeOK ==
  /\ \A p \in Callers :
       /\ frame[p].pc \in {"idle", "get", "delete", "wait", "create", "read", "done"}
       /\ frame[p].op \in {"none", "activate", "deactivate", "get_active", "not_found"}
  /\ invoked \subseteq Defs

(***************************************************************************)
(* Properties                                                              *)
(***************************************************************************)
\* the step from f to g issues a store call inside one call of the caller
IssuedDelete(f, g) == Running(f) /\ g.nDelete = f.nDelete + 1
IssuedCreate(f, g) == Running(f) /\ g.nCreate = f.nCreate + 1
IssuedPoll(f, g) == f.pc = "wait" /\ g # f /\ g.lastCall = "poll"
                    /\ (g.nPoll = f.nPoll + 1 \/ g.pc # "wait")
                    /\ g.result # TimeoutError

C1_Returned(p) ==
  /\ frame[p].op = "activate" /\ frame[p].pc = "done"
  /\ frame[p].result.kind = "return" /\ frame[p].firstRead = 200

C1_State ==
  \A p \in Callers : C1_Returned(p) =>
    /\ frame[p].nDelete = 1 /\ frame[p].nCreate = 1
    /\ frame[p].polled /\ frame[p].sawGone
    /\ frame[p].result = Return("created")

C1_Step ==
  \A p \in Callers :
    LET f == frame[p]
        g == frame'[p]
    IN  f.op = "activate" /\ f.firstRead = 200 =>
          /\ IssuedDelete(f, g) => f.nDelete = 0 /\ ~f.polled /\ f.nCreate = 0
          /\ IssuedPoll(f, g) => f.nDelete = 1 /\ f.nCreate = 0 /\ ~f.sawGone
          /\ IssuedCreate(f, g) => f.nDelete = 1 /\ f.nCreate = 0 /\ f.sawGone

\* C1: a non-concurrent activate that found the resource Present and returns
\* has issued exactly one delete, has then polled until a poll returned
\* not-found, has only then issued exactly one create, and returns `created`;
\* no create is issued before a poll of the wait returned not-found.
C1_DeleteWaitCreate == []C1_State /\ [][C1_Step]_vars

C1_Witness ==
  \E p \in Callers : C1_Returned(p) /\ frame[p].sawGone /\ invoked = Defs

\* C2 (as stated): activate on an Absent resource (initial read not-found)
\* issues exactly one create and no delete, performs no wait, and returns
\* `created`.
C2_Original ==
  \A p \in Callers :
    frame[p].op = "activate" /\ frame[p].pc = "done" /\ frame[p].firstRead = 404 =>
      /\ frame[p].nCreate = 1 /\ frame[p].nDelete = 0 /\ ~frame[p].polled
      /\ frame[p].result = Return("created")

\* C2 (amended): activate on an Absent resource issues exactly one create and
\* no delete and performs no wait; it returns `created` when that create
\* succeeds and ends with the create's error when it fails.
C2_AbsentCreates ==
  \A p \in Callers :
    LET f == frame[p]
    IN  f.op = "activate" /\ f.firstRead = 404 =>
          /\ f.pc \in {"create", "done"}
          /\ f.nDelete = 0 /\ ~f.polled /\ ~f.sawGone /\ f.elapsed = 0
          /\ f.pc = "create" => f.nCreate = 0
          /\ f.pc = "done" =>
               /\ f.nCreate = 1 /\ f.lastCall = "create"
               /\ f.lastStatus = 201 => f.result = Return("created")
               /\ f.lastStatus # 201 => f.result = ApiException(f.lastStatus)

C2_Witness ==
  \E p \in Callers :
    /\ frame[p].op = "activate" /\ frame[p].pc = "done" /\ frame[p].firstRead = 404
    /\ frame[p].result = Return("created")

C3_State ==
  \A p \in Callers :
    frame[p].result = TimeoutError =>
      /\ frame[p].op = "activate" /\ frame[p].pc = "done"
      /\ frame[p].nCreate = 0 /\ ~frame[p].sawGone /\ frame[p].polled

C3_Step ==
  \A p \in Callers :
    LET f == frame[p]
        g == frame'[p]
    IN  f.pc = "wait" /\ f.elapsed >= Timeout /\ g # f =>
          /\ g.pc = "done" /\ g.result = TimeoutError
          /\ g.result.kind = "raise" /\ g.result.exc # "ApiException"
          /\ g.nCreate = 0 /\ store' = store

\* C3: when the wait reaches its deadline without a poll having returned
\* not-found, activate ends with a TimeoutError (not an ApiException), has
\* issued no create, and does not return `created`.
C3_TimeoutIsFatal == []C3_State /\ [][C3_Step]_vars

C3_Witness == \E p \in Callers : frame[p].result = TimeoutError

\* a store response that is an error other than not-found
Failure(status) == status \notin {0, 200, 201, 404}

C4_State ==
  \A p \in Callers :
    LET f == frame[p]
    IN  Failure(f.lastStatus) =>
          /\ f.pc = "done" /\ f.result = ApiException(f.lastStatus)
          /\ f.lastCall = "get" => f.nDelete = 0 /\ ~f.polled /\ f.nCreate = 0
          /\ f.lastCall = "delete" => f.nDelete = 1 /\ ~f.polled /\ f.nCreate = 0
          /\ f.lastCall = "poll" => f.nCreate = 0
          /\ f.lastCall = "create" => f.nCreate = 1

C4_Step ==
  \A p \in Callers :
    LET f == frame[p]
        g == frame'[p]
    IN  Failure(f.lastStatus) /\ g # f =>
          /\ g.lastCall = "none" /\ g.nGet = 0 /\ g.nDelete = 0 /\ g.nCreate = 0
          /\ ~g.polled /\ store' = store

\* C4: in activate, deactivate and get_active a store response that is an
\* error other than not-found ends the operation with that same error, and
\* the operation issues no store call after it: no delete or create after a
\* failed read, no poll or create after a failed delete, no create after a
\* failed poll, no second create after a failed create.
C4_FailureEndsCall == []C4_State /\ [][C4_Step]_vars

C4_Witness ==
  \E p \in Callers :
    /\ frame[p].op = "activate" /\ frame[p].lastCall = "poll"
    /\ Failure(frame[p].lastStatus)

C5_State ==
  \A p \in Callers :
    LET f == frame[p]
    IN  f.op = "deactivate" /\ f.pc = "done" =>
          /\ f.nDelete = 1 /\ f.nGet = 0 /\ f.nCreate = 0 /\ ~f.polled
          /\ f.lastStatus = 200 => f.result = Return("deleted")
          /\ f.lastStatus = 404 => f.result = Return("already_deleted")

C5_Step ==
  \A p \in Callers :
    LET f == frame[p]
        g == frame'[p]
    IN  /\ f.op = "deactivate" /\ f.pc = "delete" /\ g # f
        /\ Lookup(self.namespace, self.inferenceservice_name) = {}
        => /\ store' = store
           /\ g.lastStatus = 404 => g.result = Return("already_deleted")

\* C5: deactivate issues exactly one delete; it returns `deleted` when the
\* delete succeeds and `already_deleted` when the delete returns not-found,
\* never an error in these two cases, and on an Absent resource it leaves the
\* resource Absent.
C5_DeactivateIdempotent == []C5_State /\ [][C5_Step]_vars

C5_Witness ==
  \E p \in Callers :
    /\ frame[p].op = "deactivate" /\ frame[p].pc = "done"
    /\ frame[p].result = Return("already_deleted")
    /\ store = {} /\ invoked # {}

C6_State ==
  \A p \in Callers :
    LET f == frame[p]
    IN  f.op = "get_active" =>
          /\ f.nDelete = 0 /\ f.nCreate = 0 /\ ~f.polled
          /\ f.pc = "done" =>
               /\ f.nGet = 1
               /\ f.lastStatus = 404 =>
                    f.result = [kind |-> "return", value |-> NoManifest]
               /\ f.lastStatus = 200 =>
                    f.result.kind = "return" /\ f.result.value # NoManifest

C6_Step ==
  \A p \in Callers :
    LET f == frame[p]
        g == frame'[p]
        found == Lookup(self.namespace, self.inferenceservice_name)
    IN  g.op = "get_active" /\ g # f =>
          /\ store' = store
          /\ g.pc = "done" /\ found = {} /\ ~Failure(g.lastStatus) =>
               g.result = [kind |-> "return", value |-> NoManifest]
          /\ g.pc = "done" /\ found # {} /\ ~Failure(g.lastStatus) =>
               /\ g.result.kind = "return"
               /\ \E o \in found : g.result.value = o.body

\* C6: get_active returns Absent (None, a normal value) when the read returns
\* not-found and the stored resource when the read finds it; it issues only
\* the one read and leaves the store as it was.
C6_GetActiveReadsOnly == []C6_State /\ [][C6_Step]_vars

C6_Witness ==
  \E p \in Callers :
    /\ frame[p].op = "get_active" /\ frame[p].pc = "done"
    /\ frame[p].result = [kind |-> "return", value |-> NoManifest]
    /\ invoked # {}

\* both callers' activate calls read the resource as Absent before either
\* issued its create, and both calls are over
C7_Raced ==
  /\ bothReadAbsent
  /\ \A p \in Callers : frame[p].op = "activate" /\ frame[p].pc = "done"

\* the store holds exactly the manifest of caller w, not marked for deletion
HoldsManifestOf(w) ==
  store = {[namespace |-> self.namespace, name |-> self.inferenceservice_name,
            body |-> frame[w].inference_service, terminating |-> FALSE]}

C7_OneWinner ==
  \E w \in Callers :
    /\ frame[w].result = Return("created")
    /\ \A l \in Others(w) : frame[l].result = ApiException(409)
    /\ HoldsManifestOf(w)

C7_OneCreateEach ==
  \A p \in Callers :
    frame[p].nCreate = 1 /\ frame[p].nDelete = 0 /\ ~frame[p].polled

\* C7 (as stated): when two concurrent activate calls both read Absent, both
\* issue a create, exactly one create succeeds, the other receives a conflict
\* that ends its activate with an error and without retry, and the resource
\* is then Present with the manifest of the call whose create succeeded.
C7_Original == C7_Raced => C7_OneCreateEach /\ C7_OneWinner

\* C7 (amended): when two concurrent activate calls both read Absent, both
\* issue exactly one create and no delete; a create that fails ends its call
\* with that error; at most one create succeeds, and the resource is then
\* Present with that call's manifest; unless a create fails with an upstream
\* error other than a conflict, exactly one create succeeds and the other
\* receives a conflict.
C7_RaceOnCreate ==
  C7_Raced =>
    /\ C7_OneCreateEach
    /\ \A p \in Callers :
         /\ frame[p].lastCall = "create"
         /\ frame[p].lastStatus = 201 => frame[p].result = Return("created")
         /\ frame[p].lastStatus # 201 => frame[p].result = ApiException(frame[p].lastStatus)
         /\ frame[p].result = Return("created") =>
              /\ HoldsManifestOf(p)
              /\ \A q \in Others(p) : frame[q].result # Return("created")
    /\ (\A p \in Callers : frame[p].lastStatus \notin ErrStatuses) => C7_OneWinner

C7_Witness ==
  /\ C7_Raced /\ C7_OneWinner
  /\ frame["c1"].model_config # frame["c2"].model_config

\* C8: in every reachable state, under any interleaving of the three
\* operations, the store holds at most one resource, under the configured
\* (namespace, name), and its manifest is the one built for a definition
\* that activate was called with.
C8_SingleResource ==
  /\ Cardinality(store) <= 1
  /\ \A o \in store :
       /\ o.namespace = self.namespace /\ o.name = self.inferenceservice_name
       /\ \E D \in invoked : o.body = _build_inferenceservice(D)

C8_Witness ==
  /\ \E o \in store : o.body = _build_inferenceservice(Def2) /\ ~o.terminating
  /\ invoked = Defs
  /\ \A p \in Callers : Running(frame[p])
  /\ \E p \in Callers : frame[p].op = "activate" /\ frame[p].pc = "create"
                        /\ frame[p].model_config = Def1

C9_State ==
  \A p \in Callers :
    LET f == frame[p]
    IN  /\ f.nPoll <= 150
        /\ f.pc = "wait" =>
             /\ f.nPoll * 2 <= f.elapsed
             /\ f.elapsed < 300 => f.nPoll < 150
        /\ f.pc # "wait" => f.nPoll = 0

C9_Step ==
  \A p \in Callers :
    LET f == frame[p]
        g == frame'[p]
    IN  f.pc = "wait" /\ g # f =>
          /\ f.elapsed >= 300 =>
               ~IssuedPoll(f, g) /\ g.pc = "done" /\ g.result = TimeoutError
          /\ f.elapsed < 300 =>
               /\ IssuedPoll(f, g)
               /\ g.lastStatus = 404 => g.pc = "create" /\ g.sawGone
               /\ Failure(g.lastStatus) =>
                    g.pc = "done" /\ g.result = ApiException(g.lastStatus)
               /\ g.lastStatus = 200 =>
                    /\ g.pc = "wait" /\ g.nPoll = f.nPoll + 1
                    /\ g.elapsed >= f.elapsed + 2

C9_Terminates ==
  \A p \in Callers : (frame[p].pc = "wait") ~> (frame[p].pc # "wait")

\* C9: the deletion wait always terminates: it returns as soon as a poll
\* returns not-found, raises as soon as a poll returns another error, and
\* otherwise raises the timeout once the clock has reached start + 300; with
\* the interval of 2 it performs at most 150 polls, and none once the
\* deadline has been reached.
C9_WaitIsBounded == []C9_State /\ [][C9_Step]_vars /\ C9_Terminates

C9_Witness ==
  \E p \in Callers :
    frame[p].pc = "wait" /\ frame[p].nPoll = 150 /\ frame[p].elapsed >= 300

\* the field -> flag table of the manifest builder's contract
C10_Flag(key) ==
  CASE key = "tensorParallelSize" -> "--tensor-parallel-size"
    [] key = "dtype" -> "--dtype"
    [] key = "gpuMemoryUtilization" -> "--gpu-memory-utilization"
    [] key = "maxModelLen" -> "--max-model-len"
    [] key = "trustRemoteCode" -> "--trust-remote-code"
    [] OTHER -> ""

RECURSIVE C10_Concat(_)
C10_Concat(tokenLists) ==
  IF tokenLists = <<>> THEN <<>>
  ELSE C10_Concat(SubSeq(tokenLists, 1, Len(tokenLists) - 1))
       \o tokenLists[Len(tokenLists)]

\* the fields of the vllm config given to the builder, in insertion order
C10_Fields ==
  LET vllm == DictGet(build_in, "vllm")
  IN  IF vllm.t = "dict" THEN vllm.items ELSE <<>>

\* the claim's rule for one field
C10_StatedTokens(key, value) ==
  IF C10_Flag(key) = "" THEN <<>>
  ELSE IF value = VBool(FALSE) THEN <<>>
  ELSE IF value = VBool(TRUE) THEN <<C10_Flag(key)>>
  ELSE <<C10_Flag(key), Str(value)>>

\* the rule with the null case
C10_AmendedTokens(key, value) ==
  IF value = None THEN <<>> ELSE C10_StatedTokens(key, value)

\* C10 (as stated): the args built are the concatenation, in the insertion
\* order of the fields, of each field's tokens: nothing for a field outside
\* the five-entry table or with value false, [flag] for true, and
\* [flag, str(value)] for any other value.
C10_Original ==
  build_out # NotBuilt =>
    build_out.args =
      C10_Concat([i \in 1 .. Len(C10_Fields) |->
                    C10_StatedTokens(C10_Fields[i].k, C10_Fields[i].v)])

\* C10 (amended): as stated, except that a field whose value is null yields
\* nothing, like a field with value false.
C10_ArgsInFieldOrder ==
  build_out # NotBuilt =>
    build_out.args =
      C10_Concat([i \in 1 .. Len(C10_Fields) |->
                    C10_AmendedTokens(C10_Fields[i].k, C10_Fields[i].v)])

C10_Witness ==
  /\ build_out # NotBuilt
  /\ C10_Fields = <<[k |-> "trustRemoteCode", v |-> VBool(TRUE)],
                    [k |-> "dtype", v |-> VStr("float16")]>>
  /\ build_out.args = <<"--trust-remote-code", "--dtype", "float16">>

\* the model part of the manifest built
BuiltModel == build_out.manifest.spec.predictor.model

\* the fields of the vllm config of the definition given to the builder;
\* none when the definition has no vllm config
C11_Fields ==
  LET vllm == DictGet(build_in, "vllm")
  IN  IF vllm.t = "dict" THEN vllm.items ELSE <<>>

\* the claim's fields that map to no token
C11_StatedTokenless(item) ==
  item.k \notin {"tensorParallelSize", "dtype", "gpuMemoryUtilization",
                 "maxModelLen", "trustRemoteCode"}
  \/ item.v = VBool(FALSE)

\* with the null case
C11_AmendedTokenless(item) == C11_StatedTokenless(item) \/ item.v = None

C11_Rule(Tokenless(_)) ==
  build_out # NotBuilt =>
    IF \A n \in 1 .. Len(C11_Fields) : Tokenless(C11_Fields[n])
    THEN "args" \notin DOMAIN BuiltModel
    ELSE "args" \in DOMAIN BuiltModel /\ BuiltModel["args"] # <<>>

\* C11 (as stated): the manifest built for a definition has no args key when
\* the definition has no vllm config or when every vllm field is an unknown
\* field or has value false, and has an args key with a non-empty sequence
\* otherwise.
C11_Original == C11_Rule(C11_StatedTokenless)

\* C11 (amended): the manifest built for a definition has no args key when
\* the definition has no vllm config or when every vllm field is an unknown
\* field, has value false or has value null, and has an args key with a
\* non-empty sequence otherwise.
C11_ArgsKey == C11_Rule(C11_AmendedTokenless)

C11_Witness ==
  /\ build_out # NotBuilt
  /\ C11_Fields # <<>>
  /\ \E n \in 1 .. Len(C11_Fields) :
       C11_Fields[n].k = "dtype" /\ C11_Fields[n].v = None
  /\ "args" \notin DOMAIN BuiltModel

\* the key is in the definition and its value is not null
C12_Has(D, key) == key \in DOMAIN D /\ D[key] # None

\* the key is in the definition and its value is a non-empty string
C12_NonEmpty(D, key) == C12_Has(D, key) /\ D[key] # VStr("")

C12_Rule(Given(_, _)) ==
  build_out # NotBuilt =>
    IF Given(build_in, "storageUri")
    THEN /\ "storageUri" \in DOMAIN BuiltModel
         /\ BuiltModel["storageUri"] = build_in["storageUri"]
    ELSE IF Given(build_in, "hfModelId")
    THEN /\ "storageUri" \in DOMAIN BuiltModel
         /\ BuiltModel["storageUri"] = VStr("hf://" \o build_in["hfModelId"].v)
    ELSE "storageUri" \notin DOMAIN BuiltModel

\* the manifest of {id: m1, hfModelId: org/m1}
C12_EndToEnd ==
  build_out # NotBuilt /\ build_in = [id |-> VStr("m1"), hfModelId |-> VStr("org/m1")] =>
    /\ "storageUri" \in DOMAIN BuiltModel
    /\ BuiltModel["storageUri"] = VStr("hf://org/m1")
    /\ "args" \notin DOMAIN BuiltModel

RaisesTimeout(f, g) == f.pc = "wait" /\ g.pc = "done" /\ g.result = TimeoutError

\* C15: a deletion timeout is raised only while the old resource is still
\* present: in every state in which the TimeoutError is raised, a read of the
\* resource at that moment would find the resource.
C15_TimeoutOnlyWhilePresent ==
  [][\A p \in Callers :
       RaisesTimeout(frame[p], frame'[p]) =>
         Lookup(self.namespace, self.inferenceservice_name) # {}]_vars

\* the caller's activate_model call has returned `created`
ReturnedCreated(p) ==
  /\ frame[p].op = "activate" /\ frame[p].pc = "done"
  /\ frame[p].result = Return("created")

\* the resource is Present with the manifest built for the definition of the
\* call
C16_State ==
  \A p \in Callers : ReturnedCreated(p) =>
    /\ store # {}
    /\ \A o \in store :
         /\ ~o.terminating
         /\ o.body = _build_inferenceservice(frame[p].model_config)
         /\ o.body.metadata.annotations.modelId = frame[p].model_config["id"]

\* the get_active call that follows a call that returned `created` ends
C16_FollowingEnds(f, g) ==
  f.pc = "read" /\ g.pc = "done" /\ g.follows # NoManifest

C16_StatedStep ==
  \A p \in Callers :
    C16_FollowingEnds(frame[p], frame'[p]) =>
      frame'[p].result = [kind |-> "return", value |-> frame'[p].follows]

C16_Step ==
  \A p \in Callers :
    C16_FollowingEnds(frame[p], frame'[p]) =>
      IF Failure(frame'[p].lastStatus)
      THEN frame'[p].result = ApiException(frame'[p].lastStatus)
      ELSE frame'[p].result = [kind |-> "return", value |-> frame'[p].follows]

\* C16 (as stated): with no concurrent caller, whenever activate(D) returns
\* `created`, the resource is Present and its manifest is the one built for D
\* (its model-id annotation is D.id), whatever the resource was before the
\* call; a following get_active returns that manifest.
C16_Original == []C16_State /\ [][C16_StatedStep]_vars

\* C16 (amended): with no concurrent caller, whenever activate(D) returns
\* `created`, the resource is Present and its manifest is the one built for D
\* (its model-id annotation is D.id), whatever the resource was before the
\* call; a following get_active returns that manifest, unless its read fails
\* with an upstream error, which it raises.
C16_CreatedIsLive == []C16_State /\ [][C16_Step]_vars

C16_Witness ==
  \E p \in Callers :
    /\ frame[p].op = "get_active" /\ frame[p].pc = "done"
    /\ frame[p].follows = _build_inferenceservice(Def1)
    /\ frame[p].result = [kind |-> "return", value |-> frame[p].follows]
    /\ invoked = Defs

\* the manifests that the store holds
Manifests(objects) == {o.body : o \in objects}

\* the store calls of the client are reads, deletes, polls and creates, and
\* a call that returns an action returns one of the three of the code
C17_State ==
  \A p \in Callers :
    /\ frame[p].lastCall \in {"none", "get", "delete", "poll", "create"}
    /\ frame[p].result.kind = "return" /\ frame[p].op = "activate" =>
         frame[p].result.action = "created"
    /\ frame[p].result.kind = "return" /\ frame[p].op = "deactivate" =>
         frame[p].result.action \in {"deleted", "already_deleted"}

\* a step that starts and ends with the resource Present leaves its manifest
\* as it is: the manifest changes only through a state in which the resource
\* is Absent
C17_Step ==
  store # {} /\ store' # {} => Manifests(store') = Manifests(store)

C18_DeletedInTime(p) ==
  /\ frame[p].op = "activate" /\ frame[p].pc = "wait"
  /\ frame[p].elapsed <= Timeout
  /\ Lookup(self.namespace, self.inferenceservice_name) = {}

\* the call is over with `created`, or with the error of a store call
C18_CreatedOrFailed(p) ==
  \/ ReturnedCreated(p)
  \/ frame[p].pc = "done" /\ Failure(frame[p].lastStatus)

\* C18: if no store call returns an error other than not-found and the
\* cluster completes the requested deletion before the wait deadline, a
\* non-concurrent activate eventually returns `created`: it does not block
\* forever and does not end in a timeout.
C18_EventuallyCreated ==
  \A p \in Callers : C18_DeletedInTime(p) ~> C18_CreatedOrFailed(p)

\* the two callers' activate calls overlapped in time, both have returned and
\* every requested deletion has completed
C20_BothReturned ==
  /\ overlap
  /\ \A p \in Callers : frame[p].op = "activate" /\ frame[p].pc = "done"
  /\ \A o \in store : ~o.terminating

\* C20 (as stated): under any interleaving of two concurrent activate calls,
\* once both calls have returned and every requested deletion has completed,
\* if at least one call returned `created` then the resource is Present with
\* the manifest of a call that returned `created`: a resource created by a
\* call that reported success is never left deleted by the other call.
C20_Original ==
  C20_BothReturned /\ (\E p \in Callers : ReturnedCreated(p)) =>
    \E w \in Callers : ReturnedCreated(w) /\ HoldsManifestOf(w)

\* C20 (amended): under any interleaving of two concurrent activate calls,
\* once both calls have returned and every requested deletion has completed,
\* if both calls returned `created` then the resource is Present with the
\* manifest of one of them; if only one call returned `created` then the
\* resource is either Present with the manifest of that call or Absent, the
\* other call having deleted it before ending in an error.
C20_CreatedOrDeleted ==
  C20_BothReturned /\ (\E p \in Callers : ReturnedCreated(p)) =>
    \/ \E w \in Callers : ReturnedCreated(w) /\ HoldsManifestOf(w)
    \/ /\ store = {}
       /\ \E l \in Callers : ~ReturnedCreated(l) /\ frame[l].nDelete = 1

C20_Witness ==
  /\ C20_BothReturned
  /\ store = {}
  /\ ReturnedCreated("c1") /\ frame["c1"].model_config = Def1
  /\ frame["c2"].result = TimeoutError /\ frame["c2"].model_config = Def2

\* the definitions that the present, well-formed files carry under the id
CarriedBy(model_id) ==
  {files[name].doc : name \in {n \in FileNames :
     /\ dir_exists
     /\ files[n].kind = "dict"
     /\ "id" \in DOMAIN files[n].doc
     /\ files[n].doc["id"] = VStr(model_id)}}

\* the files have not changed since the catalog was last loaded: get answers
\* with a definition of a file that carries the id, and with nothing for an
\* id that no file carries and for the empty id
C13_State ==
  fresh >= 1 =>
    \A model_id \in RequestIds \cup {""} :
      IF model_id # "" /\ CarriedBy(model_id) # {}
      THEN get_model(models, model_id) \in CarriedBy(model_id)
      ELSE get_model(models, model_id) = None

\* the answer of a GET /models/{model_id} request, which reloads first
C13_Step ==
  got' # got =>
    IF CarriedBy(got'.model_id) # {}
    THEN got'.kind = "return" /\ got'.model \in CarriedBy(got'.model_id)
    ELSE got' = HTTPException(404, got'.model_id)

\* C13: after any reload, whatever the catalog held before, get(id) returns a
\* definition if and only if some present, well-formed definition file
\* carries that non-empty id: a malformed file, an id-less file and a removed
\* file contribute no entry, and none of them aborts the reload or keeps the
\* other files from being loaded.
C13_ReloadReflectsFiles == []C13_State /\ [][C13_Step]_vars

C13_Witness ==
  /\ fresh >= 1
  /\ files["a.json"] = Malformed /\ files["b.json"] = Dict(Def2)
  /\ glob_order = <<"a.json", "b.json">>
  /\ DOMAIN models = {"m2"}
  /\ got = HTTPException(404, "m1")

C19_State ==
  \A p \in Callers :
    frame[p].op = "not_found" =>
      /\ frame[p].pc = "done"
      /\ frame[p].result = HTTPException(404, frame[p].result.model_id)
      /\ frame[p].nGet = 0 /\ frame[p].nDelete = 0 /\ frame[p].nCreate = 0
      /\ ~frame[p].polled /\ frame[p].lastCall = "none"

\* a request ends as not found exactly when no file carries the id it asks
\* for, and then leaves the store as it is; a client call is entered only for
\* a definition that a file carries
C19_Step ==
  \A p \in Callers :
    LET f == frame[p]
        g == frame'[p]
    IN  ~Running(f) /\ g # f =>
          /\ g.op = "not_found" =>
               CarriedBy(g.result.model_id) = {} /\ store' = store
          /\ g.op = "activate" =>
               g.model_config \in CarriedBy(g.model_config["id"].v)

\* C19: a request to activate an id that the catalog, once reloaded, does not
\* contain ends with the not-found result and issues no store call: no read,
\* no delete and no create, so the live resource is left as it was.
C19_UnknownIdTouchesNothing == []C19_State /\ [][C19_Step]_vars

C19_Witness ==
  /\ frame["c1"].op = "not_found"
  /\ frame["c1"].result = HTTPException(404, "m1")
  /\ Manifests(store) = {_build_inferenceservice(Def1)}

\* the delete of the caller's activate_model returned not-found: the resource
\* that its first read saw has disappeared
C21_DeleteMissed(f) ==
  f.op = "activate" /\ f.firstRead = 200 /\ f.deleteStatus = 404

\* C21 (as stated): if the resource that the first read of activate saw as
\* Present has disappeared by the time activate issues its delete, activate
\* does not fail: its wait returns on a poll that returns not-found and it
\* goes on to issue exactly one create.
C21_Original ==
  \A p \in Callers :
    C21_DeleteMissed(frame[p]) /\ frame[p].pc = "done" =>
      frame[p].sawGone /\ frame[p].nCreate = 1

\* the call does not end at the delete; it creates at most once, and only
\* after a poll of its wait returned not-found; it ends without a create only
\* by the error of a poll or by the timeout of the wait
C21_State ==
  \A p \in Callers :
    LET f == frame[p]
    IN  C21_DeleteMissed(f) =>
          /\ f.nDelete = 1 /\ f.nCreate <= 1
          /\ f.nCreate = 1 => f.polled /\ f.sawGone
          /\ f.pc = "done" =>
               \/ f.sawGone /\ f.nCreate = 1 /\ f.lastCall = "create"
               \/ ~f.sawGone /\ f.nCreate = 0 /\ f.result = TimeoutError
               \/ /\ ~f.sawGone /\ f.nCreate = 0 /\ f.lastCall = "poll"
                  /\ Failure(f.lastStatus) /\ f.result = ApiException(f.lastStatus)

\* the not-found delete leaves the store as it is and enters the wait; the
\* wait returns on the first poll that returns not-found
C21_Step ==
  \A p \in Callers :
    LET f == frame[p]
        g == frame'[p]
    IN  /\ f.op = "activate" /\ f.pc = "delete" /\ g.deleteStatus = 404 =>
             g.pc = "wait" /\ g.result = NoResult /\ store' = store
        /\ C21_DeleteMissed(f) /\ IssuedPoll(f, g) /\ g.lastStatus = 404 =>
             g.pc = "create" /\ g.sawGone
        /\ C21_DeleteMissed(f) /\ IssuedPoll(f, g) /\ g.lastStatus = 200 =>
             g.pc = "wait" /\ ~g.sawGone

\* C21 (amended): if the resource that the first read of activate saw as
\* Present has disappeared by the time activate issues its delete, activate
\* does not fail on the not-found delete: it enters its wait, the wait returns
\* on the first poll that returns not-found, and activate then issues exactly
\* one create; when a concurrent activate has created the resource again the
\* polls find it, and the call ends without a create by the timeout of the
\* wait, as it does by the error of a poll.
C21_MissedDeleteIsSuccess == []C21_State /\ [][C21_Step]_vars

C21_Witness ==
  \E p \in Callers :
    /\ C21_DeleteMissed(frame[p]) /\ frame[p].pc = "done"
    /\ frame[p].result = Return("created")
    /\ frame[p].nCreate = 1 /\ frame[p].sawGone
    /\ HoldsManifestOf(p)
    /\ overlap

====
